---- MODULE Spec2Model ----
(***************************************************************************)
(* Model of src/main.py: the interactive two-way reconciliation of sheet   *)
(* datasets (compare_json_enhanced, merge_rows_enhanced, get_user_choice)  *)
(* and the pipeline of main() around it.                                   *)
(*                                                                         *)
(* A text value (a cell, a header, a line typed by the operator) is a      *)
(* sequence of one-character strings, so that str.strip() is computed.     *)
(* An optional row (Python: a list or None) is <<>> for None and <<r>> for *)
(* the list r.                                                             *)
(***************************************************************************)
EXTENDS Integers, Sequences, FiniteSets

\* ------------------------------------------------------------------ bounds
\* rows per sheet in the long datasets
MaxRows == 2
\* cells per row in the wide datasets
MaxCols == 2
\* invalid lines the operator types at one prompt before a valid one
MaxRejections == 1

\* ------------------------------------------------------------ text values
SP == " "
E == <<>>
Blank1 == <<SP>>
A == <<"a">>
SpA == <<SP, "a">>
B == <<"b">>
C == <<"c">>

RECURSIVE lstrip(_)
lstrip(s) == IF s # <<>> /\ Head(s) = SP THEN lstrip(Tail(s)) ELSE s

RECURSIVE rstrip(_)
rstrip(s) ==
    IF s # <<>> /\ s[Len(s)] = SP THEN rstrip(SubSeq(s, 1, Len(s) - 1)) ELSE s

\* str.strip()
strip(s) == rstrip(lstrip(s))

\* Python truthiness of an optional row: not None and not the empty list
Truthy(opt) == opt # <<>> /\ opt[1] # <<>>

\* any(str(cell).strip() for cell in row)
AnyCell(row) == \E k \in 1..Len(row) : strip(row[k]) # <<>>

None == <<>>
Some(r) == <<r>>

Max(a, b) == IF a >= b THEN a ELSE b

\* rows[i] if i < len(rows) else None   (i is 0-based)
RowAt(rows, i) == IF i < Len(rows) THEN Some(rows[i + 1]) ELSE None

\* row[i] if i < len(row) else ""
CellAt(row, i) == IF i < Len(row) THEN row[i + 1] ELSE E

\* ---------------------------------------------------------- operator input
ROW_CHOICES == {<<"1">>, <<"2">>, <<"3">>, <<"4">>, <<"s">>}
FIELD_CHOICES == {<<"1">>, <<"2">>}

\* lines the operator may type: the choices, a padded choice, invalid lines
Inputs == ROW_CHOICES \cup {<<SP, "2", SP>>, <<"x">>, <<>>}

\* variant without the membership test: any line is returned
get_user_choice_any(line, valid_choices) == [ok |-> TRUE, choice |-> strip(line)]

\* One round of the loop of get_user_choice: the typed line is stripped and
\* accepted iff it is one of the valid choices.
get_user_choice(line, valid_choices) ==
    [ok |-> strip(line) \in valid_choices, choice |-> strip(line)]

\* ------------------------------------------------------------- merge logic
\* the branch of merge_rows_enhanced taken for one position
FieldConflict(lv, rv) ==
    LET lc == strip(lv)
        rc == strip(rv)
    IN  lc # rc /\ ~(lc # <<>> /\ rc = <<>>) /\ ~(rc # <<>> /\ lc = <<>>)

\* variant that always takes the second value
AutoField_remote(lv, rv) == strip(rv)

\* the value appended for a position that needs no decision
AutoField(lv, rv) ==
    LET lc == strip(lv)
        rc == strip(rv)
    IN  IF lc = rc THEN lc
        ELSE IF lc # <<>> /\ rc = <<>> THEN lc
        ELSE rc

\* -------------------------------------------------------------- row logic
\* variant comparing the rows cell by cell after trimming
RowsEqual_trim(lrow, rrow) ==
    /\ Len(lrow) = Len(rrow)
    /\ (lrow # <<>> =>
          /\ Len(lrow[1]) = Len(rrow[1])
          /\ \A k \in 1..Len(lrow[1]) : strip(lrow[1][k]) = strip(rrow[1][k]))

\* variant taking a blank row to be equal to any present row
RowsEqual_blank(lrow, rrow) ==
    \/ lrow = rrow
    \/ /\ lrow # <<>> /\ rrow # <<>>
       /\ ~AnyCell(lrow[1]) \/ ~AnyCell(rrow[1])

\* lrow == rrow
RowsEqual(lrow, rrow) == lrow = rrow

\* variant appending the row with its cells trimmed
KeepEqual_strip(lrow) ==
    IF Truthy(lrow) /\ AnyCell(lrow[1])
    THEN <<[k \in 1..Len(lrow[1]) |-> strip(lrow[1][k])]>>
    ELSE <<>>

\* if lrow and any(...): resolved_rows.append(lrow)  -- the rows appended
KeepEqual(lrow) == IF Truthy(lrow) /\ AnyCell(lrow[1]) THEN <<lrow[1]>> ELSE <<>>

\* variant inserting at the front
Extend_front(rows, more) == more \o rows

\* resolved_rows.append(r) for each r of more (at most one)
Extend(rows, more) == rows \o more

\* indices kept by [r for r in resolved_rows if r and any(...)]
RECURSIVE KeptIdx(_, _)
KeptIdx(rows, k) ==
    IF k > Len(rows) THEN <<>>
    ELSE IF rows[k] # <<>> /\ AnyCell(rows[k])
         THEN <<k>> \o KeptIdx(rows, k + 1)
         ELSE KeptIdx(rows, k + 1)

\* variant without the final filter
FinalIdx_all(rows) == [k \in 1..Len(rows) |-> k]

FinalIdx(rows) == KeptIdx(rows, 1)

Pick(seq, idx) == [k \in 1..Len(idx) |-> seq[idx[k]]]

\* local_sheet.get("headers", []) or remote_sheet.get("headers", [])
Headers(lh, rh) == IF lh # <<>> THEN lh ELSE rh

EmptySheet == [headers |-> <<>>, rows |-> <<>>]

\* data.get(sheet, {"headers": [], "rows": []})
SheetOf(data, s) == IF s \in DOMAIN data THEN data[s] ELSE EmptySheet

\* ------------------------------------------------------------------ inputs
\* compare_json_enhanced takes whatever the two JSON snapshots hold: rows may
\* be ragged, blank or empty lists, and either side may lack a sheet or a row.
SheetNames == {"S1", "S2"}

SeqsUpTo(S, n) == UNION {[1..k -> S] : k \in 0..n}

\* long datasets: one sheet, up to MaxRows rows of a few shapes
\* (a blank row, two non-blank rows that differ in a field)
RowPool == {<<E>>, <<A, B>>, <<SpA, C>>}
LongSheets == {[headers |-> <<A, B>>, rows |-> r] : r \in SeqsUpTo(RowPool, MaxRows)}
LongData == {[s \in {"S1"} |-> sh] : sh \in LongSheets}

\* wide datasets: one sheet of at most one row, every row of up to MaxCols
\* cells (ragged rows, the empty list, blank and padded cells)
CellVals == {E, Blank1, A, SpA, B}
WideRows == SeqsUpTo(CellVals, MaxCols)
WideSheets == {[headers |-> <<A>>, rows |-> r] : r \in SeqsUpTo(WideRows, 1)}
WideData == {[s \in {"S1"} |-> sh] : sh \in WideSheets}

\* multi-sheet datasets: any subset of the sheet names, headers that may be
\* empty, at most one row (two rows that differ in one field)
HeaderPool == {<<>>, <<A>>}
MultiSheets == {[headers |-> h, rows |-> r] : h \in HeaderPool, r \in {<<>>, <<<<A, B>>>>, <<<<A, C>>>>}}
MultiData == UNION {[D -> MultiSheets] : D \in SUBSET SheetNames}

\* the .xlsx files of the data directory, by the name of their JSON form
Files == {"a.json", "b.json"}

\* what the git commands of run_git_pull meet: a failing command raises
\* CalledProcessError
GitEnvs == [status_ok : BOOLEAN, dirty : BOOLEAN, branch_ok : BOOLEAN,
            on_branch : BOOLEAN, checkout_ok : BOOLEAN, pull_ok : BOOLEAN]
NoEnv == [status_ok |-> FALSE, dirty |-> FALSE, branch_ok |-> FALSE,
          on_branch |-> FALSE, checkout_ok |-> FALSE, pull_ok |-> FALSE]

DataPairs == (LongData \X LongData) \cup (WideData \X WideData) \cup (MultiData \X MultiData)

\* ------------------------------------------------------------------- state
VARIABLES
    \* compare_json_enhanced
    pc, local_data, remote_data, resolved, total_conflicts, todo, sheet,
    headers, local_rows, remote_rows, i, resolved_rows, sheet_conflicts,
    \* merge_rows_enhanced
    m_lrow, m_rrow, mi, merged,
    \* get_user_choice
    entered, choice, rejections,
    \* observations of the run: source index of each resolved row, per-sheet
    \* record of prompts and answers, number of field-level prompts
    origin, log, field_prompts,
    \* main
    mpc, excel_files, remote_excel_files, pending, successful_local,
    successful_remote, git_env, git_result, git_cmds, to_compare,
    resolved_files, enc, conversion_success, tmp_dir,
    \* observations of the run: the files each step has touched
    failed_local, failed_remote, decoded_remote, compared, copied, encoded

varsC == <<pc, local_data, remote_data, resolved, total_conflicts, todo, sheet,
           headers, local_rows, remote_rows, i, resolved_rows, sheet_conflicts,
           m_lrow, m_rrow, mi, merged, origin, log, field_prompts>>

varsAsk == <<entered, choice, rejections>>

varsM == <<mpc, excel_files, remote_excel_files, pending, successful_local,
           successful_remote, git_env, git_result, git_cmds, to_compare,
           resolved_files, enc, conversion_success, tmp_dir,
           failed_local, failed_remote, decoded_remote, compared, copied, encoded>>

vars == <<varsC, varsAsk, varsM>>

\* per sheet: row-level calls of get_user_choice, indices counted as conflicts,
\* <<index, answer>> pairs, source index of each row of the resolved sheet,
\* conflict count reported for the sheet
EmptyLog == [prompts |-> 0, counted |-> {}, answers |-> {}, origin |-> <<>>,
             reported |-> 0]

InitCompare ==
    /\ pc = "start"
    /\ resolved = <<>>
    /\ total_conflicts = 0
    /\ todo = {}
    /\ sheet = ""
    /\ headers = <<>>
    /\ local_rows = <<>>
    /\ remote_rows = <<>>
    /\ i = 0
    /\ resolved_rows = <<>>
    /\ sheet_conflicts = 0
    /\ m_lrow = <<>>
    /\ m_rrow = <<>>
    /\ mi = 0
    /\ merged = <<>>
    /\ entered = <<>>
    /\ choice = <<>>
    /\ rejections = 0
    /\ origin = <<>>
    /\ log = [s \in SheetNames |-> EmptyLog]
    /\ field_prompts = 0

\* the pipeline before its first step; mpc = "idle" when only the comparison
\* of one file pair is run
InitPipeline(at) ==
    /\ mpc = at
    /\ remote_excel_files = {}
    /\ pending = {}
    /\ successful_local = {}
    /\ successful_remote = {}
    /\ git_env = NoEnv
    /\ git_result = "none"
    /\ git_cmds = <<>>
    /\ to_compare = {}
    /\ resolved_files = <<>>
    /\ enc = 0
    /\ conversion_success = 0
    /\ tmp_dir = FALSE
    /\ failed_local = {}
    /\ failed_remote = {}
    /\ decoded_remote = {}
    /\ compared = {}
    /\ copied = {}
    /\ encoded = {}

Init ==
    /\ \E d \in DataPairs : local_data = d[1] /\ remote_data = d[2]
    /\ InitCompare
    /\ excel_files = {}
    /\ InitPipeline("idle")

\* ------------------------------------------------- compare_json_enhanced
max_len == Max(Len(local_rows), Len(remote_rows))
lrow == RowAt(local_rows, i)
rrow == RowAt(remote_rows, i)

unchangedMerge == UNCHANGED <<m_lrow, m_rrow, mi, merged>>
unchangedInput == UNCHANGED <<local_data, remote_data, varsM>>
unchangedSheet == UNCHANGED <<todo, sheet, headers, local_rows, remote_rows>>
unchangedAsk == UNCHANGED <<entered, choice, rejections>>

\* json.load of the two snapshots; a malformed snapshot ends the call
ReadJson ==
    /\ pc = "start"
    /\ \E readable \in BOOLEAN :
          IF readable
          THEN /\ pc' = "sheet"
               /\ todo' = DOMAIN local_data \cup DOMAIN remote_data
          ELSE /\ pc' = "failed"
               /\ todo' = todo
    /\ unchangedInput /\ unchangedMerge /\ unchangedAsk
    /\ UNCHANGED <<resolved, total_conflicts, sheet, headers, local_rows,
                   remote_rows, i, resolved_rows, sheet_conflicts, origin, log,
                   field_prompts>>

\* for sheet in all_sheets: the set is iterated in some order
NextSheet ==
    /\ pc = "sheet"
    /\ \E s \in todo :
          /\ sheet' = s
          /\ todo' = todo \ {s}
          /\ headers' = Headers(SheetOf(local_data, s).headers,
                                SheetOf(remote_data, s).headers)
          /\ local_rows' = SheetOf(local_data, s).rows
          /\ remote_rows' = SheetOf(remote_data, s).rows
    /\ i' = 0
    /\ resolved_rows' = <<>>
    /\ origin' = <<>>
    /\ sheet_conflicts' = 0
    /\ pc' = "row"
    /\ unchangedInput /\ unchangedMerge /\ unchangedAsk
    /\ UNCHANGED <<resolved, total_conflicts, log, field_prompts>>

\* the rows produced at index i are appended and the scan moves on
Produce(more) ==
    /\ resolved_rows' = Extend(resolved_rows, more)
    /\ origin' = Extend(origin, [k \in 1..Len(more) |-> i])
    /\ i' = i + 1
    /\ pc' = "row"

\* if lrow == rrow: keep the row when it is not blank
RowEqual ==
    /\ pc = "row"
    /\ i < max_len
    /\ RowsEqual(lrow, rrow)
    /\ Produce(KeepEqual(lrow))
    /\ unchangedInput /\ unchangedSheet /\ unchangedMerge /\ unchangedAsk
    /\ UNCHANGED <<resolved, total_conflicts, sheet_conflicts, log, field_prompts>>

\* else: count the conflict, display it and call get_user_choice
RowConflict ==
    /\ pc = "row"
    /\ i < max_len
    /\ ~RowsEqual(lrow, rrow)
    /\ sheet_conflicts' = sheet_conflicts + 1
    /\ log' = [log EXCEPT ![sheet].prompts = @ + 1,
                          ![sheet].counted = @ \cup {i}]
    /\ rejections' = 0
    /\ pc' = "ask_row"
    /\ unchangedInput /\ unchangedSheet /\ unchangedMerge
    /\ UNCHANGED <<resolved, total_conflicts, i, resolved_rows, origin,
                   entered, choice, field_prompts>>

\* get_user_choice: a line outside the valid choices is rejected and the
\* prompt is issued again
Reject ==
    /\ pc \in {"ask_row", "ask_field"}
    /\ rejections < MaxRejections
    /\ \E line \in Inputs :
          LET g == get_user_choice(line, IF pc = "ask_row" THEN ROW_CHOICES
                                         ELSE FIELD_CHOICES)
          IN  /\ ~g.ok
              /\ entered' = line
    /\ rejections' = rejections + 1
    /\ unchangedInput /\ unchangedSheet /\ unchangedMerge
    /\ UNCHANGED <<pc, resolved, total_conflicts, i, resolved_rows,
                   sheet_conflicts, origin, log, field_prompts, choice>>

\* the early returns of merge_rows_enhanced(headers, l, r): the row returned,
\* as the rows to append after "if merged:"
MergeEarly(l, r) ==
    IF ~Truthy(l) /\ ~Truthy(r) THEN <<>>
    ELSE IF ~Truthy(l) THEN <<r[1]>>
    ELSE <<l[1]>>

\* the rows appended at once for a row-level choice; choices 3 and 4 with two
\* non-empty rows enter the loop of merge_rows_enhanced instead
Direct(c) ==
    IF c = <<"1">> /\ Truthy(lrow) THEN <<lrow[1]>>
    ELSE IF c = <<"2">> /\ Truthy(rrow) THEN <<rrow[1]>>
    ELSE IF c = <<"3">> THEN MergeEarly(lrow, rrow)
    ELSE IF c = <<"4">> THEN MergeEarly(rrow, lrow)
    ELSE <<>>

EntersMerge(c) == c \in {<<"3">>, <<"4">>} /\ Truthy(lrow) /\ Truthy(rrow)

\* a valid row-level answer: keep local, keep remote, merge, merge reversed, skip
RowChoice ==
    /\ pc = "ask_row"
    /\ \E line \in Inputs :
          LET g == get_user_choice(line, ROW_CHOICES)
          IN  /\ g.ok
              /\ entered' = line
              /\ choice' = g.choice
              /\ log' = [log EXCEPT ![sheet].answers = @ \cup {<<i, g.choice>>}]
              /\ IF EntersMerge(g.choice)
                 THEN /\ m_lrow' = IF g.choice = <<"3">> THEN lrow[1] ELSE rrow[1]
                      /\ m_rrow' = IF g.choice = <<"3">> THEN rrow[1] ELSE lrow[1]
                      /\ mi' = 0
                      /\ merged' = <<>>
                      /\ pc' = "merge"
                      /\ UNCHANGED <<i, resolved_rows, origin>>
                 ELSE /\ Produce(Direct(g.choice))
                      /\ unchangedMerge
    /\ rejections' = 0
    /\ unchangedInput /\ unchangedSheet
    /\ UNCHANGED <<resolved, total_conflicts, sheet_conflicts, field_prompts>>

\* ---------------------------------------------------- merge_rows_enhanced
merge_len == Max(Len(m_lrow), Len(m_rrow))
lv == CellAt(m_lrow, mi)
rv == CellAt(m_rrow, mi)

\* a position that needs no decision
MergeAuto ==
    /\ pc = "merge"
    /\ mi < merge_len
    /\ ~FieldConflict(lv, rv)
    /\ merged' = Append(merged, AutoField(lv, rv))
    /\ mi' = mi + 1
    /\ unchangedInput /\ unchangedSheet /\ unchangedAsk
    /\ UNCHANGED <<pc, resolved, total_conflicts, i, resolved_rows,
                   sheet_conflicts, origin, log, field_prompts, m_lrow, m_rrow>>

\* different non-empty values: the field-level prompt
MergeConflict ==
    /\ pc = "merge"
    /\ mi < merge_len
    /\ FieldConflict(lv, rv)
    /\ field_prompts' = field_prompts + 1
    /\ rejections' = 0
    /\ pc' = "ask_field"
    /\ unchangedInput /\ unchangedSheet /\ unchangedMerge
    /\ UNCHANGED <<resolved, total_conflicts, i, resolved_rows,
                   sheet_conflicts, origin, log, entered, choice>>

\* merged.append(lv_clean if choice == "1" else rv_clean)
FieldChoice ==
    /\ pc = "ask_field"
    /\ \E line \in Inputs :
          LET g == get_user_choice(line, FIELD_CHOICES)
          IN  /\ g.ok
              /\ entered' = line
              /\ choice' = g.choice
              /\ merged' = Append(merged, IF g.choice = <<"1">> THEN strip(lv)
                                          ELSE strip(rv))
    /\ mi' = mi + 1
    /\ rejections' = 0
    /\ pc' = "merge"
    /\ unchangedInput /\ unchangedSheet
    /\ UNCHANGED <<resolved, total_conflicts, i, resolved_rows,
                   sheet_conflicts, origin, log, field_prompts, m_lrow, m_rrow>>

\* return merged; the caller appends it when it is not empty
MergeReturn ==
    /\ pc = "merge"
    /\ mi = merge_len
    /\ Produce(IF merged # <<>> THEN <<merged>> ELSE <<>>)
    /\ unchangedInput /\ unchangedSheet /\ unchangedMerge /\ unchangedAsk
    /\ UNCHANGED <<resolved, total_conflicts, sheet_conflicts, log, field_prompts>>

\* end of the row scan: the blank rows are filtered out, the sheet is stored
\* and its conflicts are reported and added to the total
SheetDone ==
    /\ pc = "row"
    /\ i = max_len
    /\ LET idx == FinalIdx(resolved_rows)
           out == [headers |-> headers, rows |-> Pick(resolved_rows, idx)]
       IN  /\ resolved' = [s \in DOMAIN resolved \cup {sheet} |->
                              IF s = sheet THEN out ELSE resolved[s]]
           /\ log' = [log EXCEPT ![sheet].origin = Pick(origin, idx),
                                 ![sheet].reported = sheet_conflicts]
    /\ total_conflicts' = total_conflicts + sheet_conflicts
    /\ pc' = "sheet"
    /\ unchangedInput /\ unchangedSheet /\ unchangedMerge /\ unchangedAsk
    /\ UNCHANGED <<i, resolved_rows, sheet_conflicts, origin, field_prompts>>

\* json.dump(resolved); return True
Save ==
    /\ pc = "sheet"
    /\ todo = {}
    /\ pc' = "done"
    /\ unchangedInput /\ unchangedSheet /\ unchangedMerge /\ unchangedAsk
    /\ UNCHANGED <<resolved, total_conflicts, i, resolved_rows,
                   sheet_conflicts, origin, log, field_prompts>>

\* ------------------------------------------------------------- run_git_pull
\* variant without the test for uncommitted changes
run_git_pull_nocheck(env) ==
    IF ~env.status_ok THEN [ok |-> FALSE, cmds |-> <<"status">>]
    ELSE IF ~env.branch_ok THEN [ok |-> FALSE, cmds |-> <<"status", "branch">>]
    ELSE IF ~env.on_branch /\ ~env.checkout_ok
         THEN [ok |-> FALSE, cmds |-> <<"status", "branch", "checkout">>]
    ELSE [ok |-> env.pull_ok,
          cmds |-> <<"status", "branch">>
                   \o (IF env.on_branch THEN <<>> ELSE <<"checkout">>)
                   \o <<"pull">>]

\* the git commands run and the value returned
run_git_pull(env) ==
    IF ~env.status_ok THEN [ok |-> FALSE, cmds |-> <<"status">>]
    ELSE IF env.dirty THEN [ok |-> FALSE, cmds |-> <<"status">>]
    ELSE IF ~env.branch_ok THEN [ok |-> FALSE, cmds |-> <<"status", "branch">>]
    ELSE IF ~env.on_branch /\ ~env.checkout_ok
         THEN [ok |-> FALSE, cmds |-> <<"status", "branch", "checkout">>]
    ELSE [ok |-> env.pull_ok,
          cmds |-> <<"status", "branch">>
                   \o (IF env.on_branch THEN <<>> ELSE <<"checkout">>)
                   \o <<"pull">>]

\* --------------------------------------------------------------------- main
unchangedCompare == UNCHANGED <<varsC>>
unchangedGit == UNCHANGED <<git_env, git_result, git_cmds>>
unchangedLocal == UNCHANGED <<excel_files, successful_local, failed_local>>
unchangedRemote == UNCHANGED <<remote_excel_files, successful_remote,
                               failed_remote, decoded_remote>>
unchangedStep4 == UNCHANGED <<to_compare, compared, copied>>
unchangedStep5 == UNCHANGED <<enc, conversion_success, encoded>>

\* makedirs and glob; without Excel files the run ends, otherwise one
\* conversion task per file is submitted
Start ==
    /\ mpc = "start"
    /\ tmp_dir' = TRUE
    /\ IF excel_files = {}
       THEN /\ mpc' = "end"
            /\ pending' = pending
       ELSE /\ mpc' = "local"
            /\ pending' = excel_files
    /\ unchangedCompare /\ unchangedGit /\ unchangedLocal /\ unchangedRemote
    /\ unchangedStep4 /\ unchangedStep5
    /\ UNCHANGED <<varsAsk, resolved_files>>

\* step 1: a local conversion task completes (as_completed), with the result
\* of excel_to_json_streaming
ConvertLocal ==
    /\ mpc = "local"
    /\ \E f \in pending, success \in BOOLEAN :
          /\ pending' = pending \ {f}
          /\ successful_local' = IF success THEN successful_local \cup {f}
                                 ELSE successful_local
          /\ failed_local' = IF success THEN failed_local ELSE failed_local \cup {f}
    /\ unchangedCompare /\ unchangedGit /\ unchangedRemote
    /\ unchangedStep4 /\ unchangedStep5
    /\ UNCHANGED <<varsAsk, mpc, excel_files, resolved_files, tmp_dir>>

\* step 2: run_git_pull; on False main returns, on True the directory is
\* listed again and the remote conversion tasks are submitted
GitPull ==
    /\ mpc = "local"
    /\ pending = {}
    /\ \E env \in GitEnvs :
          LET r == run_git_pull(env)
          IN  /\ git_env' = env
              /\ git_cmds' = r.cmds
              /\ git_result' = IF r.ok THEN "true" ELSE "false"
              /\ IF r.ok
                 THEN /\ mpc' = "remote"
                      /\ \E fs \in SUBSET Files :
                            /\ remote_excel_files' = fs
                            /\ pending' = fs
                 ELSE /\ mpc' = "end"
                      /\ UNCHANGED <<remote_excel_files, pending>>
    /\ unchangedCompare /\ unchangedLocal
    /\ unchangedStep4 /\ unchangedStep5
    /\ UNCHANGED <<varsAsk, successful_remote, failed_remote, decoded_remote,
                   resolved_files, tmp_dir>>

\* step 3: a remote conversion task completes
ConvertRemote ==
    /\ mpc = "remote"
    /\ \E f \in pending, success \in BOOLEAN :
          /\ pending' = pending \ {f}
          /\ decoded_remote' = decoded_remote \cup {f}
          /\ successful_remote' = IF success THEN successful_remote \cup {f}
                                  ELSE successful_remote
          /\ failed_remote' = IF success THEN failed_remote ELSE failed_remote \cup {f}
    /\ unchangedCompare /\ unchangedGit /\ unchangedLocal
    /\ unchangedStep4 /\ unchangedStep5
    /\ UNCHANGED <<varsAsk, mpc, remote_excel_files, resolved_files, tmp_dir>>

\* step 4: files_to_compare = set(successful_local) & set(successful_remote)
StartCompare ==
    /\ mpc = "remote"
    /\ pending = {}
    /\ to_compare' = successful_local \cap successful_remote
    /\ mpc' = "compare"
    /\ unchangedCompare /\ unchangedGit /\ unchangedLocal /\ unchangedRemote
    /\ unchangedStep5
    /\ UNCHANGED <<varsAsk, pending, resolved_files, tmp_dir, compared, copied>>

\* compare_json_enhanced on one file of both sides; it returns False when a
\* JSON snapshot cannot be read
CompareFile ==
    /\ mpc = "compare"
    /\ \E f \in to_compare, ok \in BOOLEAN :
          /\ to_compare' = to_compare \ {f}
          /\ compared' = compared \cup {f}
          /\ resolved_files' = IF ok THEN Append(resolved_files, f)
                               ELSE resolved_files
    /\ unchangedCompare /\ unchangedGit /\ unchangedLocal /\ unchangedRemote
    /\ unchangedStep5
    /\ UNCHANGED <<varsAsk, mpc, pending, tmp_dir, copied>>

only_local == successful_local \ successful_remote
only_remote == successful_remote \ successful_local

\* a file converted on the local side only is copied to the resolved set
CopyOnlyLocal ==
    /\ mpc = "compare"
    /\ to_compare = {}
    /\ \E f \in only_local \ copied :
          /\ copied' = copied \cup {f}
          /\ resolved_files' = Append(resolved_files, f)
    /\ unchangedCompare /\ unchangedGit /\ unchangedLocal /\ unchangedRemote
    /\ unchangedStep5
    /\ UNCHANGED <<varsAsk, mpc, pending, tmp_dir, to_compare, compared>>

\* then the files converted on the remote side only
CopyOnlyRemote ==
    /\ mpc = "compare"
    /\ to_compare = {}
    /\ only_local \subseteq copied
    /\ \E f \in only_remote \ copied :
          /\ copied' = copied \cup {f}
          /\ resolved_files' = Append(resolved_files, f)
    /\ unchangedCompare /\ unchangedGit /\ unchangedLocal /\ unchangedRemote
    /\ unchangedStep5
    /\ UNCHANGED <<varsAsk, mpc, pending, tmp_dir, to_compare, compared>>

\* step 5: json_to_excel_optimized on the resolved files, in list order
Encode ==
    /\ mpc = "compare"
    /\ to_compare = {}
    /\ (only_local \cup only_remote) \subseteq copied
    /\ enc < Len(resolved_files)
    /\ \E ok \in BOOLEAN :
          conversion_success' = IF ok THEN conversion_success + 1
                                ELSE conversion_success
    /\ encoded' = encoded \cup {resolved_files[enc + 1]}
    /\ enc' = enc + 1
    /\ unchangedCompare /\ unchangedGit /\ unchangedLocal /\ unchangedRemote
    /\ unchangedStep4
    /\ UNCHANGED <<varsAsk, mpc, pending, resolved_files, tmp_dir>>

AllEncoded ==
    /\ mpc = "compare"
    /\ to_compare = {}
    /\ (only_local \cup only_remote) \subseteq copied
    /\ enc = Len(resolved_files)

CLEANUP_CHOICES == {<<"y">>, <<"n">>}
CleanupInputs == CLEANUP_CHOICES \cup {<<"y", SP>>, <<"x">>}

\* the cleanup question: an invalid line is asked again
CleanupReject ==
    /\ AllEncoded
    /\ rejections < MaxRejections
    /\ \E line \in CleanupInputs :
          /\ ~get_user_choice(line, CLEANUP_CHOICES).ok
          /\ entered' = line
    /\ rejections' = rejections + 1
    /\ unchangedCompare
    /\ UNCHANGED <<varsM, choice>>

\* "y" removes the temporary directory; the run ends
Cleanup ==
    /\ AllEncoded
    /\ \E line \in CleanupInputs :
          LET g == get_user_choice(line, CLEANUP_CHOICES)
          IN  /\ g.ok
              /\ entered' = line
              /\ choice' = g.choice
              /\ tmp_dir' = (g.choice # <<"y">>)
    /\ rejections' = 0
    /\ mpc' = "end"
    /\ unchangedCompare /\ unchangedGit /\ unchangedLocal /\ unchangedRemote
    /\ unchangedStep4 /\ unchangedStep5
    /\ UNCHANGED <<pending, resolved_files>>

InitMain ==
    /\ local_data = <<>>
    /\ remote_data = <<>>
    /\ InitCompare
    /\ excel_files \in SUBSET Files
    /\ InitPipeline("start")

NextMain ==
    \/ Start
    \/ ConvertLocal
    \/ GitPull
    \/ ConvertRemote
    \/ StartCompare
    \/ CompareFile
    \/ CopyOnlyLocal
    \/ CopyOnlyRemote
    \/ Encode
    \/ CleanupReject
    \/ Cleanup

SpecMain == InitMain /\ [][NextMain]_vars

Next ==
    \/ ReadJson
    \/ NextSheet
    \/ RowEqual
    \/ RowConflict
    \/ Reject
    \/ RowChoice
    \/ MergeAuto
    \/ MergeConflict
    \/ FieldChoice
    \/ MergeReturn
    \/ SheetDone
    \/ Save

Spec == Init /\ [][Next]_vars

\* ------------------------------------------- the inputs, read independently
LRows(s) == SheetOf(local_data, s).rows
RRows(s) == SheetOf(remote_data, s).rows
NRows(s) == Max(Len(LRows(s)), Len(RRows(s)))
LRow(s, k) == RowAt(LRows(s), k)
RRow(s, k) == RowAt(RRows(s), k)

\* indices of the scan at which the two rows are not exactly equal
Differing(s) == {k \in 0..(NRows(s) - 1) : LRow(s, k) # RRow(s, k)}

\* a present row whose every cell is empty after trimming
IsBlank(opt) == opt # None /\ \A c \in 1..Len(opt[1]) : strip(opt[1][c]) = <<>>
IsNonBlank(opt) == opt # None /\ \E c \in 1..Len(opt[1]) : strip(opt[1][c]) # <<>>

Finished == DOMAIN resolved
AnswersAt(s, k) == {c \in ROW_CHOICES : <<k, c>> \in log[s].answers}
Positions(s, k) == {j \in 1..Len(log[s].origin) : log[s].origin[j] = k}
HasRow(s, k) == Positions(s, k) # {}

RECURSIVE SumOver(_, _)
SumOver(f(_), S) ==
    IF S = {} THEN 0
    ELSE LET x == CHOOSE y \in S : TRUE IN f(x) + SumOver(f, S \ {x})

\* ------------------------------------------------------------------ claims

\* C1: at every index where the two rows differ, the resolved sheet lacks a
\* row for that index only if the operator answered the row-level prompt for
\* it with the skip choice "s".
C1_DroppedOnlyOnSkip ==
    \A s \in Finished : \A k \in Differing(s) :
        ~HasRow(s, k) => <<k, <<"s">>>> \in log[s].answers

\* C2: for every sheet the number of row-level prompts equals the reported
\* conflict count, which equals the number of indices at which the rows are
\* not exactly equal; the total is the sum over the sheets; field-level
\* prompts do not enter the count.
C2_PromptsEqualConflicts ==
    /\ \A s \in Finished :
          /\ log[s].prompts = log[s].reported
          /\ log[s].reported = Cardinality(Differing(s))
    /\ pc \in {"row", "ask_row", "merge", "ask_field"} =>
          log[sheet].prompts = sheet_conflicts
    /\ LET reportedOf(s) == log[s].reported
       IN  total_conflicts = SumOver(reportedOf, Finished)
    /\ pc = "done" =>
          LET differingOf(s) == Cardinality(Differing(s))
          IN  total_conflicts =
                 SumOver(differingOf, DOMAIN local_data \cup DOMAIN remote_data)

\* two sheets with conflicts each, and field-level prompts in the run
C2_Witness ==
    /\ pc = "done"
    /\ Finished = SheetNames
    /\ \A s \in SheetNames : log[s].reported > 0
    /\ field_prompts > 0

\* C3: no row of a resolved sheet is blank, whichever path produced it.
C3_NoBlankRow ==
    \A s \in Finished : \A j \in 1..Len(resolved[s].rows) :
        \E c \in 1..Len(resolved[s].rows[j]) : strip(resolved[s].rows[j][c]) # <<>>

\* the operator kept a blank local row, or merged two blank rows, and the
\* sheet was stored
C3_Witness ==
    \E s \in Finished : \E k \in Differing(s) :
        /\ IsBlank(LRow(s, k))
        /\ LRow(s, k)[1] # <<>>
        /\ \/ <<k, <<"1">>>> \in log[s].answers
           \/ <<k, <<"3">>>> \in log[s].answers /\ IsBlank(RRow(s, k))
                                                /\ RRow(s, k)[1] # <<>>

\* C4: reconciling a dataset against an identical copy reports no conflict,
\* issues no prompt and resolves to the input headers and the input rows, in
\* order and unchanged, minus the blank rows.
C4_IdenticalInput ==
    (pc = "done" /\ local_data = remote_data) =>
        /\ total_conflicts = 0
        /\ field_prompts = 0
        /\ \A s \in SheetNames : log[s].prompts = 0 /\ log[s].reported = 0
        /\ DOMAIN resolved = DOMAIN local_data
        /\ \A s \in DOMAIN local_data :
              /\ resolved[s].headers = local_data[s].headers
              /\ resolved[s].rows =
                    SelectSeq(local_data[s].rows, LAMBDA r : IsNonBlank(Some(r)))

\* an identical pair with a blank row and a non-blank row with a padded cell
C4_Witness ==
    /\ pc = "done"
    /\ local_data = remote_data
    /\ \E s \in DOMAIN local_data :
          /\ \E k \in 1..Len(local_data[s].rows) : IsBlank(Some(local_data[s].rows[k]))
          /\ \E k \in 1..Len(local_data[s].rows) :
                /\ IsNonBlank(Some(local_data[s].rows[k]))
                /\ \E c \in 1..Len(local_data[s].rows[k]) :
                      strip(local_data[s].rows[k][c]) # local_data[s].rows[k][c]

\* in the loop of merge_rows_enhanced: exactly one of the trimmed values at
\* position q is empty
OneEmpty(q) ==
    (strip(CellAt(m_lrow, q)) = <<>>) # (strip(CellAt(m_rrow, q)) = <<>>)
NonEmptyOf(q) ==
    IF strip(CellAt(m_lrow, q)) # <<>> THEN strip(CellAt(m_lrow, q))
    ELSE strip(CellAt(m_rrow, q))

VCFails(env) ==
    /\ env.status_ok
    /\ \/ env.dirty
       \/ /\ env.branch_ok
          /\ \/ ~env.on_branch /\ ~env.checkout_ok
             \/ ~env.pull_ok

NoLaterStep ==
    /\ remote_excel_files = {}
    /\ decoded_remote = {}
    /\ compared = {}
    /\ copied = {}
    /\ encoded = {}
    /\ resolved_files = <<>>
    /\ to_compare = {}

\* C6: when the version-control step fails the run ends without any later
\* step; a file is decoded again, compared, copied or written back only after
\* run_git_pull has returned True.
C6_GitFailureAborts ==
    /\ (git_result # "none" /\ VCFails(git_env)) =>
          (git_result = "false" /\ mpc = "end" /\ NoLaterStep)
    /\ git_result = "false" => (mpc = "end" /\ NoLaterStep)
    /\ ~NoLaterStep => git_result = "true"
    /\ mpc \in {"remote", "compare"} => git_result = "true"

\* local files were converted, then uncommitted changes stopped the run
C6_Witness ==
    /\ git_result = "false"
    /\ git_env.status_ok /\ git_env.dirty
    /\ successful_local # {}
    /\ mpc = "end"

\* C7: a file whose decoding failed on the local side, the remote side or
\* both is not compared, not copied into the resolved set and not re-encoded.
C7_FailedFileExcluded ==
    \A f \in failed_local \cup failed_remote :
        f \notin compared /\ f \notin copied /\ f \notin encoded

\* C8: within a resolved sheet the rows are in ascending order of the index
\* they were produced from, every index gives at most one row, that row is
\* made of the cells of the two rows at that index, and equal rows at
\* different indices are all kept.
FromIndex(row, s, k) ==
    \/ Some(row) \in {LRow(s, k), RRow(s, k)}
    \/ /\ LRow(s, k) # None /\ RRow(s, k) # None
       /\ Len(row) = Max(Len(LRow(s, k)[1]), Len(RRow(s, k)[1]))
       /\ \A c \in 0..(Len(row) - 1) :
             row[c + 1] \in {strip(CellAt(LRow(s, k)[1], c)),
                             strip(CellAt(RRow(s, k)[1], c))}

C8_AscendingOrder ==
    /\ \A s \in Finished :
          LET o == log[s].origin
              rows == resolved[s].rows
          IN  /\ Len(o) = Len(rows)
              /\ \A j \in 1..Len(o) : o[j] \in 0..(NRows(s) - 1)
              /\ \A j, k \in 1..Len(o) : j < k => o[j] < o[k]
              /\ \A j \in 1..Len(o) : FromIndex(rows[j], s, o[j])
              /\ \A k \in 0..(NRows(s) - 1) :
                    (LRow(s, k) = RRow(s, k) /\ IsNonBlank(LRow(s, k))) =>
                        \E j \in 1..Len(o) : o[j] = k /\ Some(rows[j]) = LRow(s, k)
    /\ pc \in {"row", "ask_row", "merge", "ask_field"} =>
          /\ Len(origin) = Len(resolved_rows)
          /\ \A j, k \in 1..Len(origin) : j < k => origin[j] < origin[k]
          /\ \A j \in 1..Len(origin) : origin[j] < i

\* a resolved sheet holding the same content twice, from two indices, after a
\* differing row was resolved
C8_Witness ==
    \E s \in Finished :
        /\ Len(resolved[s].rows) >= 2
        /\ \E j, k \in 1..Len(resolved[s].rows) :
              j < k /\ resolved[s].rows[j] = resolved[s].rows[k]
        /\ log[s].reported > 0

\* a step taken while get_user_choice waits for a line
AskStep ==
    pc \in {"ask_row", "ask_field"} =>
        LET valid == IF pc = "ask_row" THEN ROW_CHOICES ELSE FIELD_CHOICES
        IN  IF strip(entered') \in valid
            THEN /\ choice' = strip(entered')
                 /\ pc' \notin {"ask_row", "ask_field"}
                 /\ pc = "ask_row" => (pc' = "merge" \/ i' = i + 1)
                 /\ pc = "ask_field" => mi' = mi + 1
            ELSE /\ pc' = pc
                 /\ rejections' = rejections + 1
                 /\ UNCHANGED <<i, mi, resolved_rows, merged, choice, log,
                                sheet_conflicts, field_prompts>>

\* C9: get_user_choice returns only a trimmed line that is one of the valid
\* choices; any other line is rejected and the prompt stays, the caller not
\* moving on; a valid line is returned at once.
C9_OnlyValidChoice == [][AskStep]_vars

\* a padded line was accepted and returned as its trimmed choice, and the
\* caller went on with it
C9_Witness ==
    /\ pc = "row"
    /\ i > 0
    /\ entered = <<SP, "2", SP>>
    /\ choice = <<"2">>
    /\ resolved_rows # <<>>

\* both rows present at index k, exactly one of them blank
OneBlank(s, k) ==
    \/ IsBlank(LRow(s, k)) /\ IsNonBlank(RRow(s, k))
    \/ IsNonBlank(LRow(s, k)) /\ IsBlank(RRow(s, k))
NonBlankOf(s, k) == IF IsNonBlank(LRow(s, k)) THEN LRow(s, k)[1] ELSE RRow(s, k)[1]
KeepNonBlank(s, k) == IF IsNonBlank(LRow(s, k)) THEN <<"1">> ELSE <<"2">>
BothBlankEqual(s, k) == LRow(s, k) = RRow(s, k) /\ IsBlank(LRow(s, k))

====
